---- MODULE Spec2Model ----
(***************************************************************************)
(* Model of scripts/data_validation.py: the data-quality rule engine       *)
(* (taxonomy, z-score outlier and latency rules), the orchestrator         *)
(* run_validations and the process entry point main.                       *)
(*                                                                         *)
(* A scalar value of a record is a tagged record:                          *)
(*   [t |-> "null"]               Python None (SQL NULL)                   *)
(*   [t |-> "str", s |-> chars]   Python str, chars a sequence of          *)
(*                                one-character strings                    *)
(*   [t |-> "int", v |-> n]       Python int                               *)
(* A record (dict) is a function from its column names to scalar values;   *)
(* a dataset is a sequence of records.                                     *)
(***************************************************************************)
EXTENDS Integers, Sequences, FiniteSets, TLC

VARIABLES
    pc,             \* position of the process / of the direct call
    data,           \* the dataset snapshot (rows of fact_campaigns)
    today,          \* datetime.now(timezone.utc).date() as (y, m, d)
    loadOutcome,    \* what load_fact_campaigns does: "ok", "operational", "other"
    sinkOutcome,    \* what write_results does: "ok" or "raise"
    results,        \* run_validations: the list of findings
    critical_found, \* run_validations: the overall flag
    evaluated,      \* rules evaluated so far, in order
    ret,            \* value returned by the function that ran
    tax,            \* run_validations: (tax_count, tax_records)
    outl,           \* run_validations: (outlier_count, outlier_records)
    lat,            \* run_validations: (latency_count, latency_records)
    loads,          \* number of calls of load_fact_campaigns
    written,        \* sequences handed to write_results, in order
    exitCode        \* status passed to sys.exit, or NoExit

vars == <<pc, data, today, loadOutcome, sinkOutcome, results, critical_found,
          evaluated, ret, tax, outl, lat, loads, written, exitCode>>

NoExit == -1
NoValue == [kind |-> "none"]
Returned(x) == [kind |-> "value", value |-> x]

----------------------------------------------------------------------------
(* Scalar values and text *)

Null == [t |-> "null"]
StrV(chars) == [t |-> "str", s |-> chars]
IntV(n) == [t |-> "int", v |-> n]

\* record.get(column): the value, or None when the key is absent
Get(record, column) ==
    IF column \in DOMAIN record THEN record[column] ELSE Null

Whitespace == {" ", "\t", "\n"}

RECURSIVE LStrip(_)
LStrip(chars) ==
    IF chars # <<>> /\ Head(chars) \in Whitespace
    THEN LStrip(Tail(chars))
    ELSE chars

RECURSIVE RStrip(_)
RStrip(chars) ==
    IF chars # <<>> /\ chars[Len(chars)] \in Whitespace
    THEN RStrip(SubSeq(chars, 1, Len(chars) - 1))
    ELSE chars

\* str.strip()
Strip(chars) == RStrip(LStrip(chars))

UpperToLower ==
    [c \in {"U", "N", "K", "O", "W", "G", "C", "P"} |->
        CASE c = "U" -> "u" [] c = "N" -> "n" [] c = "K" -> "k"
          [] c = "O" -> "o" [] c = "W" -> "w" [] c = "G" -> "g"
          [] c = "C" -> "c" [] c = "P" -> "p"]

\* str.lower() on the alphabet of the model
Lower(chars) ==
    [i \in 1..Len(chars) |->
        IF chars[i] \in DOMAIN UpperToLower THEN UpperToLower[chars[i]]
        ELSE chars[i]]

is_missing_value(value) ==
    IF value.t = "null" THEN TRUE
    ELSE IF value.t = "str"
         THEN LET stripped == Strip(value.s)
              IN  IF stripped = <<>> THEN TRUE
                  ELSE Lower(stripped) = <<"u", "n", "k", "n", "o", "w", "n">>
         ELSE FALSE

----------------------------------------------------------------------------
(* 4.2 taxonomy rule *)

Prefix(seq, n) == SubSeq(seq, 1, IF Len(seq) < n THEN Len(seq) ELSE n)

TaxonomyMissing(record) ==
    is_missing_value(Get(record, "source")) \/ is_missing_value(Get(record, "medium"))

RECURSIVE TaxonomyFlagged(_)
\* the loop of taxonomy_validation: the flagged records, in dataset order
TaxonomyFlagged(seq) ==
    IF seq = <<>> THEN <<>>
    ELSE IF TaxonomyMissing(Head(seq))
         THEN <<Head(seq)>> \o TaxonomyFlagged(Tail(seq))
         ELSE TaxonomyFlagged(Tail(seq))

taxonomy_validation(d) ==
    IF d = <<>> THEN [count |-> 0, records |-> <<>>]
    ELSE IF "source" \notin DOMAIN d[1] \/ "medium" \notin DOMAIN d[1]
         THEN [count |-> Len(d), records |-> Prefix(d, 5)]
         ELSE LET flagged == TaxonomyFlagged(d)
              IN  [count |-> Len(flagged), records |-> flagged]

----------------------------------------------------------------------------
(* Arbitrary-precision naturals.                                           *)
(* Python's int and Fraction are unbounded and a float carries a 53-bit    *)
(* significand, so the arithmetic of statistics.mean / pstdev and of the   *)
(* float operators is carried out on naturals kept as little-endian        *)
(* sequences of limbs in base LimbBase, without leading zero limbs         *)
(* (<<>> is 0).                                                            *)

LimbBits == 15
LimbBase == 2 ^ LimbBits

RECURSIVE BigNorm(_)
BigNorm(a) ==
    IF a # <<>> /\ a[Len(a)] = 0 THEN BigNorm(SubSeq(a, 1, Len(a) - 1)) ELSE a

RECURSIVE BigFromNat(_)
BigFromNat(n) ==
    IF n = 0 THEN <<>> ELSE <<n % LimbBase>> \o BigFromNat(n \div LimbBase)

RECURSIVE BigAddC(_, _, _)
\* a + b + c for a carry c
BigAddC(a, b, c) ==
    IF a = <<>> /\ b = <<>> THEN (IF c = 0 THEN <<>> ELSE <<c>>)
    ELSE LET x == (IF a = <<>> THEN 0 ELSE a[1]) + (IF b = <<>> THEN 0 ELSE b[1]) + c
         IN  <<x % LimbBase>> \o
             BigAddC(IF a = <<>> THEN a ELSE Tail(a),
                     IF b = <<>> THEN b ELSE Tail(b), x \div LimbBase)

BigAdd(a, b) == BigAddC(a, b, 0)

RECURSIVE BigSubB(_, _, _)
\* a - b - c for a borrow c, limbs not normalised; needs a >= b + c
BigSubB(a, b, c) ==
    IF a = <<>> THEN <<>>
    ELSE LET x == a[1] - (IF b = <<>> THEN 0 ELSE b[1]) - c
         IN  <<x % LimbBase>> \o
             BigSubB(Tail(a), IF b = <<>> THEN b ELSE Tail(b),
                     IF x < 0 THEN 1 ELSE 0)

\* a - b, needs a >= b
BigSub(a, b) == BigNorm(BigSubB(a, b, 0))

RECURSIVE BigCmpAt(_, _, _)
BigCmpAt(a, b, i) ==
    IF i = 0 THEN 0
    ELSE IF a[i] < b[i] THEN -1
    ELSE IF a[i] > b[i] THEN 1
    ELSE BigCmpAt(a, b, i - 1)

\* -1, 0 or 1 as a < b, a = b or a > b
BigCmp(a, b) ==
    IF Len(a) < Len(b) THEN -1
    ELSE IF Len(a) > Len(b) THEN 1
    ELSE BigCmpAt(a, b, Len(a))

RECURSIVE BitLenNat(_)
\* int.bit_length() of a natural below LimbBase
BitLenNat(n) == IF n = 0 THEN 0 ELSE 1 + BitLenNat(n \div 2)

\* int.bit_length()
BigBitLen(a) ==
    IF a = <<>> THEN 0 ELSE LimbBits * (Len(a) - 1) + BitLenNat(a[Len(a)])

\* bit i of a (bit 0 is the least significant)
BigBit(a, i) ==
    LET k == (i \div LimbBits) + 1
    IN  IF k > Len(a) THEN 0 ELSE (a[k] \div (2 ^ (i % LimbBits))) % 2

RECURSIVE BigMulSmallC(_, _, _)
BigMulSmallC(a, k, c) ==
    IF a = <<>> THEN (IF c = 0 THEN <<>> ELSE <<c>>)
    ELSE LET x == a[1] * k + c
         IN  <<x % LimbBase>> \o BigMulSmallC(Tail(a), k, x \div LimbBase)

\* a << k
BigShl(a, k) ==
    IF a = <<>> THEN <<>>
    ELSE [i \in 1..(k \div LimbBits) |-> 0] \o BigMulSmallC(a, 2 ^ (k % LimbBits), 0)

\* a >> k
BigShr(a, k) ==
    LET drop == k \div LimbBits
        j == k % LimbBits
        rest == IF drop >= Len(a) THEN <<>> ELSE SubSeq(a, drop + 1, Len(a))
    IN  BigNorm([i \in 1..Len(rest) |->
                    (rest[i] \div (2 ^ j)) +
                    (IF i < Len(rest) THEN (rest[i + 1] % (2 ^ j)) * (2 ^ (LimbBits - j))
                     ELSE 0)])

RECURSIVE BigDivBits(_, _, _, _, _)
\* binary long division: bring down bits i-1 .. 0 of the limb
BigDivBits(limb, q, i, quot, rem) ==
    IF i = 0 THEN [quot |-> quot, rem |-> rem]
    ELSE LET r == BigAddC(rem, rem, (limb \div (2 ^ (i - 1))) % 2)
         IN  IF BigCmp(r, q) >= 0
             THEN BigDivBits(limb, q, i - 1, BigAddC(quot, quot, 1), BigSub(r, q))
             ELSE BigDivBits(limb, q, i - 1, BigAddC(quot, quot, 0), r)

RECURSIVE BigDivLimbs(_, _, _, _)
\* limbs k .. 1 of p still to bring down; st is the quotient and remainder
\* so far
BigDivLimbs(p, q, k, st) ==
    IF k = 0 THEN st
    ELSE BigDivLimbs(p, q, k - 1, BigDivBits(p[k], q, LimbBits, st.quot, st.rem))

\* divmod(p, q) for q > 0
BigDivMod(p, q) == BigDivLimbs(p, q, Len(p), [quot |-> <<>>, rem |-> <<>>])

RECURSIVE BigIsqrtRun(_, _, _, _)
\* digit-by-digit square root: bit runs over the powers of 4, k steps at most
BigIsqrtRun(n, res, bit, k) ==
    IF bit = <<>> \/ k = 0 THEN [n |-> n, res |-> res, bit |-> bit]
    ELSE LET t == BigAdd(res, bit)
         IN  IF BigCmp(n, t) >= 0
             THEN BigIsqrtRun(BigSub(n, t), BigAdd(BigShr(res, 1), bit), BigShr(bit, 2), k - 1)
             ELSE BigIsqrtRun(n, BigShr(res, 1), BigShr(bit, 2), k - 1)

RECURSIVE BigIsqrtLoop(_)
BigIsqrtLoop(st) ==
    IF st.bit = <<>> THEN [root |-> st.res, rem |-> st.n]
    ELSE BigIsqrtLoop(BigIsqrtRun(st.n, st.res, st.bit, LimbBits))

\* math.isqrt(n) with the remainder n - root^2
BigIsqrt(n) ==
    IF n = <<>> THEN [root |-> <<>>, rem |-> <<>>]
    ELSE BigIsqrtLoop([n |-> n, res |-> <<>>,
                       bit |-> BigShl(<<1>>, 2 * ((BigBitLen(n) - 1) \div 2))])

----------------------------------------------------------------------------
(* Python float: IEEE 754 binary64, round to nearest, ties to even.        *)
(* A float is [neg, m, e] standing for (-1)^neg * m * 2^e with             *)
(* 2^(MantBits-1) <= m < 2^MantBits, or m = 0 for zero.  The exponent is   *)
(* not bounded: the magnitudes of the model stay far from the overflow and *)
(* subnormal ranges.                                                       *)

MantBits == 53

FloatZero == [neg |-> FALSE, m |-> <<>>, e |-> 0]

\* the float of significand m and exponent e, m below 2^(MantBits+1)
Renormalise(neg, m, e) ==
    IF BigBitLen(m) > MantBits
    THEN [neg |-> neg, m |-> BigShr(m, 1), e |-> e + 1]
    ELSE [neg |-> neg, m |-> m, e |-> e]

\* round to nearest, ties to even: half is -1, 0 or 1 as the discarded part
\* is below, at or above half a unit in the last place of m
RoundHalfEven(neg, m, e, half) ==
    Renormalise(neg,
                IF half = 1 \/ (half = 0 /\ BigBit(m, 0) = 1) THEN BigAddC(m, <<>>, 1)
                ELSE m,
                e)

\* the float nearest to (-1)^neg * (quot + rem / den) * 2^e, for
\* 2^(MantBits-1) <= quot < 2^(MantBits+1)
RoundQuotient(neg, dm, den, e) ==
    IF BigBitLen(dm.quot) > MantBits
    THEN RoundHalfEven(neg, BigShr(dm.quot, 1), e + 1,
                       IF BigBit(dm.quot, 0) = 0 THEN -1
                       ELSE IF dm.rem = <<>> THEN 0 ELSE 1)
    ELSE RoundHalfEven(neg, dm.quot, e, BigCmp(BigAdd(dm.rem, dm.rem), den))

\* the float nearest to (-1)^neg * (num / den) * 2^e, for
\* 2^(MantBits-1) < num / den < 2^(MantBits+1)
RoundScaled(neg, num, den, e) == RoundQuotient(neg, BigDivMod(num, den), den, e)

\* p and q > 0 after the shift by s that brings p / q into that range
ShiftRatio(neg, p, q, e0, s) ==
    IF s >= 0 THEN RoundScaled(neg, BigShl(p, s), q, e0 - s)
    ELSE RoundScaled(neg, p, BigShl(q, 0 - s), e0 - s)

\* the float nearest to (-1)^neg * (p / q) * 2^e0, for naturals p and q > 0
RoundRatio(neg, p, q, e0) ==
    IF p = <<>> THEN FloatZero
    ELSE ShiftRatio(neg, p, q, e0, MantBits + BigBitLen(q) - BigBitLen(p))

Abs(n) == IF n < 0 THEN 0 - n ELSE n

\* float(n) for an int n
FloatFromInt(n) == RoundRatio(n < 0, BigFromNat(Abs(n)), <<1>>, 0)

\* (-1)^xneg * X - (-1)^yneg * Y for naturals X and Y, times 2^e
SignedDiff(xneg, X, yneg, Y, e) ==
    IF xneg # yneg \/ X = <<>> \/ Y = <<>>
    THEN [neg |-> IF X = <<>> THEN (Y # <<>> /\ ~yneg) ELSE xneg,
          mag |-> BigAdd(X, Y), e |-> e]
    ELSE IF BigCmp(X, Y) = 0 THEN [neg |-> FALSE, mag |-> <<>>, e |-> e]
    ELSE IF BigCmp(X, Y) > 0 THEN [neg |-> xneg, mag |-> BigSub(X, Y), e |-> e]
    ELSE [neg |-> ~xneg, mag |-> BigSub(Y, X), e |-> e]

\* x - y with both significands brought to the exponent e
AlignedDiff(x, y, e) ==
    SignedDiff(x.neg, BigShl(x.m, x.e - e), y.neg, BigShl(y.m, y.e - e), e)

\* x - y exactly, as (-1)^neg * mag * 2^e
ExactDiff(x, y) ==
    AlignedDiff(x, y, IF x.m = <<>> THEN y.e
                      ELSE IF y.m = <<>> THEN x.e
                      ELSE IF x.e < y.e THEN x.e ELSE y.e)

\* the float nearest to the exact value d
RoundExact(d) == RoundRatio(d.neg, d.mag, <<1>>, d.e)

\* float.__sub__
FloatSub(x, y) == RoundExact(ExactDiff(x, y))

\* float.__truediv__, for y # 0
FloatDiv(x, y) == RoundRatio(x.neg # y.neg, x.m, y.m, x.e - y.e)

\* abs(x)
FloatAbs(x) == [x EXCEPT !.neg = FALSE]

\* the exact value d is not below 0
NotNegative(d) == d.mag = <<>> \/ ~d.neg

\* x >= y
FloatGe(x, y) == NotNegative(ExactDiff(x, y))

\* x == 0
FloatIsZero(x) == x.m = <<>>

RECURSIVE Gcd(_, _)
Gcd(a, b) == IF b = 0 THEN a ELSE Gcd(b, a % b)

\* a | inexact: a root made odd when the square root was not exact
RoundToOdd(sq, inexact) ==
    IF (inexact \/ sq.rem # <<>>) /\ BigBit(sq.root, 0) = 0
    THEN BigAddC(sq.root, <<>>, 1)
    ELSE sq.root

\* isqrt(n // m) rounded to odd, for dm = divmod(n, m)
SqrtRtoOfDivMod(dm) == RoundToOdd(BigIsqrt(dm.quot), dm.rem # <<>>)

\* statistics._integer_sqrt_of_frac_rto(n, m): isqrt(n // m), rounded to odd
IntegerSqrtOfFracRto(n, m) == SqrtRtoOfDivMod(BigDivMod(n, m))

\* statistics._sqrt_bit_width
SqrtBitWidth == 2 * MantBits + 3

\* numerator / denominator of _float_sqrt_of_frac for its shift q
SqrtOfFracShifted(n, m, q) ==
    IF q >= 0
    THEN RoundRatio(FALSE, BigShl(IntegerSqrtOfFracRto(n, BigShl(m, 2 * q)), q),
                    <<1>>, 0)
    ELSE RoundRatio(FALSE, IntegerSqrtOfFracRto(BigShl(n, 0 - 2 * q), m),
                    BigShl(<<1>>, 0 - q), 0)

\* statistics._float_sqrt_of_frac(n, m): sqrt(n / m) as a float, correctly
\* rounded, for naturals n and m > 0
FloatSqrtOfFrac(n, m) ==
    SqrtOfFracShifted(n, m, (BigBitLen(n) - BigBitLen(m) - SqrtBitWidth) \div 2)

----------------------------------------------------------------------------
(* 4.1 numeric coercion and 4.3 outlier rule.                              *)
(* The metric values of the model are ints and texts of an optional sign   *)
(* and decimal digits, so every coerced float is an integer, kept as that  *)
(* integer; the results of mean, pstdev, subtraction and division are      *)
(* floats.                                                                 *)

None == [ok |-> FALSE]
Some(x) == [ok |-> TRUE, v |-> x]

Digits == {"0", "1", "2", "3", "4", "5", "6", "7", "8", "9"}

DigitValue ==
    [c \in Digits |->
        CASE c = "0" -> 0 [] c = "1" -> 1 [] c = "2" -> 2 [] c = "3" -> 3
          [] c = "4" -> 4 [] c = "5" -> 5 [] c = "6" -> 6 [] c = "7" -> 7
          [] c = "8" -> 8 [] c = "9" -> 9]

AllDigits(chars) == chars # <<>> /\ \A i \in 1..Len(chars) : chars[i] \in Digits

RECURSIVE DigitsValue(_, _)
\* the number written by a run of decimal digits
DigitsValue(chars, acc) ==
    IF chars = <<>> THEN acc
    ELSE DigitsValue(Tail(chars), 10 * acc + DigitValue[Head(chars)])

\* float(text) for a stripped text over digits, signs and other characters:
\* an optional sign and at least one digit, ValueError (None) otherwise
ParseFloat(text) ==
    LET signed == text # <<>> /\ Head(text) \in {"-", "+"}
        body == IF signed THEN Tail(text) ELSE text
    IN  IF AllDigits(body)
        THEN Some(IF signed /\ Head(text) = "-" THEN 0 - DigitsValue(body, 0)
                  ELSE DigitsValue(body, 0))
        ELSE None

coerce_float(value) ==
    IF value.t = "null" THEN None
    ELSE IF value.t = "int" THEN Some(value.v)
    ELSE LET text == Strip(value.s)
         IN  IF text = <<>> THEN None ELSE ParseFloat(text)

metrics == <<"spend", "impressions", "clicks", "conversions", "revenue">>

RECURSIVE ValuesWithIndex(_, _, _)
\* values_with_index of one metric: the (idx, value) pairs of the records
\* idx .. Len(d) whose value coerces; idx counts from 1
ValuesWithIndex(d, metric, idx) ==
    IF idx > Len(d) THEN <<>>
    ELSE LET numeric_value == coerce_float(Get(d[idx], metric))
         IN  IF numeric_value.ok
             THEN <<[idx |-> idx, value |-> numeric_value.v]>> \o
                  ValuesWithIndex(d, metric, idx + 1)
             ELSE ValuesWithIndex(d, metric, idx + 1)

RECURSIVE SumOf(_)
SumOf(values) == IF values = <<>> THEN 0 ELSE Head(values) + SumOf(Tail(values))

RECURSIVE SumSquares(_)
SumSquares(values) ==
    IF values = <<>> THEN 0 ELSE Head(values) * Head(values) + SumSquares(Tail(values))

\* statistics.mean(values): the exact sum divided by n, rounded once
mean(values) ==
    LET total == SumOf(values)
    IN  RoundRatio(total < 0, BigFromNat(Abs(total)), BigFromNat(Len(values)), 0)

\* n^2 times the population variance: count * sxx - sx * sx of statistics._ss
ScaledVariance(values) ==
    Len(values) * SumSquares(values) - SumOf(values) * SumOf(values)

\* statistics.pstdev(values): the square root of the exact population
\* variance (divisor n), rounded once
pstdev(values) ==
    LET n == Len(values)
        num == ScaledVariance(values)
        den == n * n
        g == Gcd(num, den)
    IN  FloatSqrtOfFrac(BigFromNat(num \div g), BigFromNat(den \div g))

ZThreshold == 3

\* variant: the z-score is compared with 2
ZFlaggedAtTwo(value, avg, std_dev) ==
    FloatGe(FloatAbs(FloatDiv(FloatSub(FloatFromInt(value), avg), std_dev)),
            FloatFromInt(2))

\* abs((value - avg) / std_dev) >= 3
ZFlagged(value, avg, std_dev) ==
    FloatGe(FloatAbs(FloatDiv(FloatSub(FloatFromInt(value), avg), std_dev)),
            FloatFromInt(ZThreshold))

\* the indices flagged among values_with_index for avg and a non-zero std_dev
FlaggedAmong(values_with_index, avg, std_dev) ==
    IF FloatIsZero(std_dev) THEN {}
    ELSE {values_with_index[i].idx : i \in
             {j \in 1..Len(values_with_index) :
                 ZFlagged(values_with_index[j].value, avg, std_dev)}}

\* values = [val for _, val in values_with_index] and its statistics
FlaggedOf(values_with_index, values) ==
    IF Len(values_with_index) < 2 THEN {}
    ELSE FlaggedAmong(values_with_index, mean(values), pstdev(values))

ValuesOf(values_with_index) ==
    [i \in 1..Len(values_with_index) |-> values_with_index[i].value]

\* the indices one metric adds to flagged_indices
MetricFlagged(d, metric) ==
    FlaggedOf(ValuesWithIndex(d, metric, 1), ValuesOf(ValuesWithIndex(d, metric, 1)))

RECURSIVE SortedSeq(_)
\* sorted(indices)
SortedSeq(indices) ==
    IF indices = {} THEN <<>>
    ELSE LET least == CHOOSE i \in indices : \A j \in indices : i <= j
         IN  <<least>> \o SortedSeq(indices \ {least})

\* flagged_records = [data[idx] for idx in sorted(flagged_indices)]
FlaggedRecords(d, order) ==
    [count |-> Len(order), records |-> [i \in 1..Len(order) |-> d[order[i]]]]

outlier_validation(d) ==
    IF d = <<>> THEN [count |-> 0, records |-> <<>>]
    ELSE FlaggedRecords(d,
            SortedSeq(UNION {MetricFlagged(d, metrics[k]) : k \in 1..Len(metrics)}))

----------------------------------------------------------------------------
(* 4.1 date parsing.  A date is [y, m, d]; values of the date column are   *)
(* NULL, text or int (sqlite3 hands back no date objects, so the           *)
(* isinstance branches of parse_date are not taken).                       *)

NoDate == [ok |-> FALSE]
SomeDate(y, m, d) == [ok |-> TRUE, y |-> y, m |-> m, d |-> d]

IsLeap(y) == (y % 4 = 0 /\ y % 100 # 0) \/ y % 400 = 0

DaysInMonth(y, m) ==
    IF m = 2 THEN (IF IsLeap(y) THEN 29 ELSE 28)
    ELSE IF m \in {4, 6, 9, 11} THEN 30 ELSE 31

RECURSIVE DaysBeforeMonth(_, _)
DaysBeforeMonth(y, m) ==
    IF m = 1 THEN 0 ELSE DaysBeforeMonth(y, m - 1) + DaysInMonth(y, m - 1)

\* date.toordinal()
ToOrdinal(dt) ==
    LET p == dt.y - 1
    IN  p * 365 + (p \div 4) - (p \div 100) + (p \div 400)
        + DaysBeforeMonth(dt.y, dt.m) + dt.d

\* the date constructor: ValueError outside the calendar
ValidDate(y, m, d) == y >= 1 /\ m \in 1..12 /\ d >= 1 /\ d <= DaysInMonth(y, m)

RECURSIVE IntToChars(_)
IntToChars(n) ==
    LET c == CHOOSE ch \in Digits : DigitValue[ch] = n % 10
    IN  IF n < 10 THEN <<c>> ELSE IntToChars(n \div 10) \o <<c>>

\* str(value) of a text or int value
ToText(value) ==
    IF value.t = "str" THEN value.s
    ELSE IF value.v < 0 THEN <<"-">> \o IntToChars(0 - value.v)
    ELSE IntToChars(value.v)

RECURSIVE DigitRun(_, _)
\* length of the run of digits of chars that starts at pos
DigitRun(chars, pos) ==
    IF pos <= Len(chars) /\ chars[pos] \in Digits THEN 1 + DigitRun(chars, pos + 1)
    ELSE 0

RECURSIVE SpaceRun(_, _)
SpaceRun(chars, pos) ==
    IF pos <= Len(chars) /\ chars[pos] \in Whitespace THEN 1 + SpaceRun(chars, pos + 1)
    ELSE 0

\* the strptime directives of the formats: digits accepted and value range
Directive ==
    [c \in {"Y", "m", "d", "H", "M", "S"} |->
        CASE c = "Y" -> [min |-> 4, max |-> 4, lo |-> 0, hi |-> 9999]
          [] c = "m" -> [min |-> 1, max |-> 2, lo |-> 1, hi |-> 12]
          [] c = "d" -> [min |-> 1, max |-> 2, lo |-> 1, hi |-> 31]
          [] c = "H" -> [min |-> 1, max |-> 2, lo |-> 0, hi |-> 23]
          [] c = "M" -> [min |-> 1, max |-> 2, lo |-> 0, hi |-> 59]
          [] c = "S" -> [min |-> 1, max |-> 2, lo |-> 0, hi |-> 61]]

NoFields == [c \in {"Y", "m", "d", "H", "M", "S"} |-> 0]

RECURSIVE MatchFormat(_, _, _, _, _)
\* match chars from pos against the tokens i .. of fmt: a directive takes a
\* run of digits, " " a run of whitespace, any other token itself; the whole
\* text has to be used up
MatchFormat(chars, pos, fmt, i, fields) ==
    IF i > Len(fmt)
    THEN IF pos = Len(chars) + 1 THEN [ok |-> TRUE, f |-> fields] ELSE [ok |-> FALSE]
    ELSE IF /\ fmt[i] = "d" /\ pos + 1 <= Len(chars) /\ chars[pos] = " "
            /\ chars[pos + 1] \in Digits \ {"0"}
    THEN \* %d also takes a space and one digit
         MatchFormat(chars, pos + 2, fmt, i + 1,
                     [fields EXCEPT !["d"] = DigitValue[chars[pos + 1]]])
    ELSE IF fmt[i] \in DOMAIN Directive
    THEN LET run == DigitRun(chars, pos)
             dir == Directive[fmt[i]]
             n == IF run > dir.max THEN dir.max ELSE run
             v == DigitsValue(SubSeq(chars, pos, pos + n - 1), 0)
         IN  IF run >= dir.min /\ v >= dir.lo /\ v <= dir.hi
             THEN MatchFormat(chars, pos + n, fmt, i + 1, [fields EXCEPT ![fmt[i]] = v])
             ELSE [ok |-> FALSE]
    ELSE IF fmt[i] = " "
    THEN LET run == SpaceRun(chars, pos)
         IN  IF run >= 1 THEN MatchFormat(chars, pos + run, fmt, i + 1, fields)
             ELSE [ok |-> FALSE]
    ELSE IF pos <= Len(chars) /\ chars[pos] = fmt[i]
         THEN MatchFormat(chars, pos + 1, fmt, i + 1, fields)
         ELSE [ok |-> FALSE]

\* datetime.strptime(text, fmt).date(), NoDate for ValueError
Strptime(text, fmt) ==
    LET r == MatchFormat(text, 1, fmt, 1, NoFields)
    IN  IF r.ok /\ ValidDate(r.f["Y"], r.f["m"], r.f["d"]) /\ r.f["S"] <= 59
        THEN SomeDate(r.f["Y"], r.f["m"], r.f["d"])
        ELSE NoDate

Formats ==
    << <<"Y", "-", "m", "-", "d">>,
       <<"Y", "/", "m", "/", "d">>,
       <<"m", "/", "d", "/", "Y">>,
       <<"Y", "-", "m", "-", "d", " ", "H", ":", "M", ":", "S">> >>

\* two digits at pos .. pos+1 with a value in lo .. hi
TwoDigits(chars, pos, lo, hi) ==
    /\ pos + 1 <= Len(chars)
    /\ chars[pos] \in Digits /\ chars[pos + 1] \in Digits
    /\ DigitsValue(SubSeq(chars, pos, pos + 1), 0) \in lo..hi

\* the time part of an ISO 8601 text: HH, HH:MM or HH:MM:SS
IsoTime(chars) ==
    \/ Len(chars) = 2 /\ TwoDigits(chars, 1, 0, 23)
    \/ Len(chars) = 5 /\ TwoDigits(chars, 1, 0, 23) /\ chars[3] = ":"
          /\ TwoDigits(chars, 4, 0, 59)
    \/ Len(chars) = 8 /\ TwoDigits(chars, 1, 0, 23) /\ chars[3] = ":"
          /\ TwoDigits(chars, 4, 0, 59) /\ chars[6] = ":" /\ TwoDigits(chars, 7, 0, 59)

\* datetime.fromisoformat(text).date() for the texts of the model: a date
\* YYYY-MM-DD, alone or followed by one separator character and a time of
\* whole seconds without offset; NoDate for ValueError
FromIsoFormat(text) ==
    IF /\ Len(text) >= 10
       /\ DigitRun(text, 1) = 4 /\ text[5] = "-" /\ text[8] = "-"
       /\ TwoDigits(text, 6, 0, 99) /\ TwoDigits(text, 9, 0, 99)
       /\ (Len(text) = 10 \/ (Len(text) >= 12 /\ IsoTime(SubSeq(text, 12, Len(text)))))
    THEN LET y == DigitsValue(SubSeq(text, 1, 4), 0)
             m == DigitsValue(SubSeq(text, 6, 7), 0)
             d == DigitsValue(SubSeq(text, 9, 10), 0)
         IN  IF ValidDate(y, m, d) THEN SomeDate(y, m, d) ELSE NoDate
    ELSE NoDate

RECURSIVE TryFormats(_, _)
\* the loop over the formats: the first that parses wins
TryFormats(text, i) ==
    IF i > Len(Formats) THEN FromIsoFormat(text)
    ELSE LET r == Strptime(text, Formats[i])
         IN  IF r.ok THEN r ELSE TryFormats(text, i + 1)

parse_date(value) ==
    IF value.t = "null" THEN NoDate
    ELSE LET text == Strip(ToText(value))
         IN  IF text = <<>> THEN NoDate ELSE TryFormats(text, 1)

----------------------------------------------------------------------------
(* 4.4 latency rule *)

MaxLatencyDays == 3

RECURSIVE LatestFromLast(_, _, _)
\* variant: a later record with the same date replaces the latest
LatestFromLast(d, idx, latest) ==
    IF idx > Len(d) THEN latest
    ELSE LET parsed == parse_date(Get(d[idx], "date"))
         IN  IF ~parsed.ok THEN LatestFromLast(d, idx + 1, latest)
             ELSE IF ~latest.found \/ ToOrdinal(parsed) >= ToOrdinal(latest.date)
                  THEN LatestFromLast(d, idx + 1,
                                      [found |-> TRUE, date |-> parsed, index |-> idx])
                  ELSE LatestFromLast(d, idx + 1, latest)

RECURSIVE LatestFrom(_, _, _)
\* the scan of latency_validation from record idx on; latest is
\* [found, date, index] for latest_date and latest_index
LatestFrom(d, idx, latest) ==
    IF idx > Len(d) THEN latest
    ELSE LET parsed == parse_date(Get(d[idx], "date"))
         IN  IF ~parsed.ok THEN LatestFrom(d, idx + 1, latest)
             ELSE IF ~latest.found \/ ToOrdinal(parsed) > ToOrdinal(latest.date)
                  THEN LatestFrom(d, idx + 1,
                                  [found |-> TRUE, date |-> parsed, index |-> idx])
                  ELSE LatestFrom(d, idx + 1, latest)

latency_validation(d, now) ==
    IF d = <<>> THEN [count |-> 1, records |-> <<>>]
    ELSE IF "date" \notin DOMAIN d[1] THEN [count |-> 1, records |-> Prefix(d, 1)]
    ELSE LET latest == LatestFrom(d, 1, [found |-> FALSE])
         IN  IF ~latest.found THEN [count |-> 1, records |-> Prefix(d, 1)]
             ELSE IF ToOrdinal(now) - ToOrdinal(latest.date) > MaxLatencyDays
                  THEN [count |-> 1, records |-> <<d[latest.index]>>]
                  ELSE [count |-> 0, records |-> <<>>]

----------------------------------------------------------------------------
(* 4.6 sampler.  The sample string is kept in structure: one entry per     *)
(* record (joined by "; " in the code), each the sequence of its           *)
(* column=value parts (joined by "|"), or the key-sorted dump of the       *)
(* record.                                                                 *)

preferred_id_cols == <<"campaign_id", "ad_id", "ad_group_id", "id">>

\* the column names of the model in sorted() order
SortedColumns ==
    <<"ad_group_id", "ad_id", "campaign_id", "clicks", "conversions", "date",
      "id", "impressions", "medium", "revenue", "source", "spend">>

RECURSIVE PartsOf(_, _, _)
\* the parts of one record for the columns i .. of cols: present and not None
PartsOf(record, cols, i) ==
    IF i > Len(cols) THEN <<>>
    ELSE IF cols[i] \in DOMAIN record /\ record[cols[i]].t # "null"
         THEN <<[column |-> cols[i], value |-> ToText(record[cols[i]])]>> \o
              PartsOf(record, cols, i + 1)
         ELSE PartsOf(record, cols, i + 1)

RECURSIVE DumpOf(_, _)
\* str({k: record[k] for k in sorted(record.keys())})
DumpOf(record, i) ==
    IF i > Len(SortedColumns) THEN <<>>
    ELSE IF SortedColumns[i] \in DOMAIN record
         THEN <<[column |-> SortedColumns[i], repr |-> record[SortedColumns[i]]]>> \o
              DumpOf(record, i + 1)
         ELSE DumpOf(record, i + 1)

SampleOf(record) ==
    LET parts == PartsOf(record, preferred_id_cols, 1) \o PartsOf(record, <<"date">>, 1)
    IN  IF parts = <<>> THEN [dump |-> DumpOf(record, 1)] ELSE [parts |-> parts]

SampleLimit == 5

build_sample_rows(records) ==
    LET first == Prefix(records, SampleLimit)
    IN  [kind |-> "sample", rows |-> [i \in 1..Len(first) |-> SampleOf(first[i])]]

----------------------------------------------------------------------------
(* 4.5 orchestrator and process boundary *)

RUN_TIMESTAMP == "RUN_TIMESTAMP"

Finding(rule, severity, count, sample_rows) ==
    [rule |-> rule, severity |-> severity, count |-> count,
     sample_rows |-> sample_rows, run_timestamp |-> RUN_TIMESTAMP]

\* variant: the finding is appended whatever the count
EmitAlways(res, count, finding) == Append(res, finding)

\* if count > 0: results.append(finding)
Emit(res, count, finding) == IF count > 0 THEN Append(res, finding) ELSE res

\* variant: the flag is overwritten by the last critical rule
CriticalOverwrite(flag, count) == count > 0

\* critical_found after a critical rule reported count
Critical(flag, count) == IF count > 0 THEN TRUE ELSE flag

\* sample_text of the data_latency finding
LatencySampleText(latency_records) ==
    IF latency_records # <<>> THEN build_sample_rows(latency_records)
    ELSE [kind |-> "text", text |-> "No recent data available"]

\* variant: a failed load reported as a warning
LoadFailureWarning(rule) == Finding(rule, "warning", 1, [kind |-> "error"])

\* the finding of a failed load
LoadFailureFinding(rule) == Finding(rule, "critical", 1, [kind |-> "error"])

\* variant: the flag is ignored
ExitStatusZero(flag) == 0

\* 1 if critical_found else 0
ExitStatus(flag) == IF flag THEN 1 ELSE 0

\* main calls run_validations, which calls load_fact_campaigns
Load ==
    /\ pc = "load"
    /\ loads' = loads + 1
    /\ \/ /\ loadOutcome = "ok"
          /\ pc' = "taxonomy"
          /\ UNCHANGED <<results, critical_found>>
       \/ /\ loadOutcome = "operational"
          /\ results' = Append(results, LoadFailureFinding("fact_campaigns_table_access"))
          /\ critical_found' = TRUE
          /\ pc' = "write"
       \/ /\ loadOutcome = "other"
          /\ results' = Append(results, LoadFailureFinding("fact_campaigns_load_failure"))
          /\ critical_found' = TRUE
          /\ pc' = "write"
    /\ UNCHANGED <<data, today, loadOutcome, sinkOutcome, evaluated, ret, tax, outl, lat,
                   written, exitCode>>

RunTaxonomy ==
    /\ pc = "taxonomy"
    /\ tax' = taxonomy_validation(data)
    /\ results' = Emit(results, tax'.count,
          Finding("missing_taxonomy", "critical", tax'.count,
                  build_sample_rows(tax'.records)))
    /\ critical_found' = Critical(critical_found, tax'.count)
    /\ evaluated' = Append(evaluated, "missing_taxonomy")
    /\ pc' = "outlier"
    /\ UNCHANGED <<data, today, loadOutcome, sinkOutcome, ret, outl, lat, loads,
                   written, exitCode>>

RunOutlier ==
    /\ pc = "outlier"
    /\ outl' = outlier_validation(data)
    /\ results' = Emit(results, outl'.count,
          Finding("zscore_outliers", "warning", outl'.count,
                  build_sample_rows(outl'.records)))
    /\ evaluated' = Append(evaluated, "zscore_outliers")
    /\ pc' = "latency"
    /\ UNCHANGED <<data, today, loadOutcome, sinkOutcome, critical_found, ret, tax, lat,
                   loads, written, exitCode>>

RunLatency ==
    /\ pc = "latency"
    /\ lat' = latency_validation(data, today)
    /\ results' = Emit(results, lat'.count,
          Finding("data_latency", "critical", lat'.count,
                  LatencySampleText(lat'.records)))
    /\ critical_found' = Critical(critical_found, lat'.count)
    /\ evaluated' = Append(evaluated, "data_latency")
    /\ pc' = "write"
    /\ UNCHANGED <<data, today, loadOutcome, sinkOutcome, ret, tax, outl, loads,
                   written, exitCode>>

\* write_results(output_path, results) succeeds; run_validations returns
WriteResults ==
    /\ pc = "write"
    /\ sinkOutcome = "ok"
    /\ written' = Append(written, results)
    /\ ret' = Returned(critical_found)
    /\ pc' = "returned"
    /\ UNCHANGED <<data, today, loadOutcome, sinkOutcome, results, critical_found,
                   evaluated, tax, outl, lat, loads, exitCode>>

\* write_results raises (mkdir or open fails); the error leaves run_validations
WriteResultsRaises ==
    /\ pc = "write"
    /\ sinkOutcome = "raise"
    /\ written' = Append(written, results)
    /\ pc' = "raised"
    /\ UNCHANGED <<data, today, loadOutcome, sinkOutcome, results, critical_found,
                   evaluated, ret, tax, outl, lat, loads, exitCode>>

\* main: sys.exit(1 if critical_found else 0)
MainExit ==
    /\ pc = "returned"
    /\ exitCode' = ExitStatus(ret.value)
    /\ pc' = "exit"
    /\ UNCHANGED <<data, today, loadOutcome, sinkOutcome, results, critical_found,
                   evaluated, ret, tax, outl, lat, loads, written>>

\* main: except Exception: sys.exit(1)
MainExcept ==
    /\ pc = "raised"
    /\ exitCode' = 1
    /\ pc' = "exit"
    /\ UNCHANGED <<data, today, loadOutcome, sinkOutcome, results, critical_found,
                   evaluated, ret, tax, outl, lat, loads, written>>

----------------------------------------------------------------------------
(* Inputs of the model *)

Google == StrV(<<"g", "o", "o", "g", "l", "e">>)
Cpc == StrV(<<"c", "p", "c">>)
Unknown == StrV(<<" ", "U", "n", "K", "n", "o", "w", "n">>)
Blank == StrV(<<" ">>)

Date_Feb29 == StrV(<<"2", "0", "2", "4", "-", "0", "2", "-", "2", "9">>)
Date_Mar01_Slash == StrV(<<"2", "0", "2", "4", "/", "0", "3", "/", "0", "1">>)
Date_Mar01_US == StrV(<<"0", "3", "/", "0", "1", "/", "2", "0", "2", "4">>)
Date_Mar01_Time == StrV(<<"2", "0", "2", "4", "-", "0", "3", "-", "0", "1", " ", "2", "3", ":", "5", "9", ":", "5", "9">>)
Date_Mar02_Iso == StrV(<<"2", "0", "2", "4", "-", "0", "3", "-", "0", "2", "T", "0", "8", ":", "0", "0", ":", "0", "0">>)
Date_Mar04_Short == StrV(<<"2", "0", "2", "4", "-", "3", "-", "4">>)
Date_Feb30 == StrV(<<"2", "0", "2", "4", "-", "0", "2", "-", "3", "0">>)
Date_Padded == StrV(<<" ", "2", "0", "2", "4", "-", "0", "2", "-", "2", "9", " ">>)
Date_Junk == StrV(<<"n", "/", "a">>)
Date_Empty == StrV(<<>>)

Absent == [t |-> "absent"]

Restrict(f, S) == [c \in S |-> f[c]]

\* a record of the given columns, without those whose value is Absent
Record(f) == Restrict(f, {c \in DOMAIN f : f[c] # Absent})

SeqsUpTo(S, n) == UNION {[1..k -> S] : k \in 0..n}

Date(y, m, d) == [y |-> y, m |-> m, d |-> d]

\* --- the process: rows of one table, every row with the table's columns

MaxRunRecords == 2
RunOutlierRecords == 10

RunSchemas ==
    { {"campaign_id", "source", "medium", "date", "spend"},
      {"medium", "date", "spend"},
      {"campaign_id", "source", "medium", "spend"} }

RunRowValues ==
    [campaign_id : {IntV(7)}, source : {Google, Null}, medium : {Cpc},
     date : {Date_Mar01_Slash, Date_Feb29, Date_Junk}, spend : {IntV(0)}]

RunSmallData ==
    {[i \in DOMAIN rows |-> Restrict(rows[i], schema)] :
        rows \in SeqsUpTo(RunRowValues, MaxRunRecords), schema \in RunSchemas}

\* RunOutlierRecords rows that differ in spend only, in the last row
RunOutlierData ==
    {[i \in 1..RunOutlierRecords |->
        [campaign_id |-> IntV(7), source |-> Google, medium |-> Cpc, date |-> dt,
         spend |-> IntV(IF i = RunOutlierRecords THEN b ELSE 0)]] :
        dt \in {Date_Mar01_Slash, Date_Feb29}, b \in {1, 9}}

RunData == RunSmallData \cup RunOutlierData

RunToday == {Date(2024, 3, 3), Date(2024, 3, 5)}

Init ==
    /\ pc = "load"
    /\ data \in RunData
    /\ today \in RunToday
    /\ loadOutcome \in {"ok", "operational", "other"}
    /\ sinkOutcome \in {"ok", "raise"}
    /\ results = <<>>
    /\ critical_found = FALSE
    /\ evaluated = <<>>
    /\ ret = NoValue
    /\ tax = NoValue
    /\ outl = NoValue
    /\ lat = NoValue
    /\ loads = 0
    /\ written = <<>>
    /\ exitCode = NoExit

Next ==
    \/ Load
    \/ RunTaxonomy
    \/ RunOutlier
    \/ RunLatency
    \/ WriteResults
    \/ WriteResultsRaises
    \/ MainExit
    \/ MainExcept

Spec == Init /\ [][Next]_vars

\* --- direct calls of the rule evaluators on any sequence of records

InitCall(datasets, days) ==
    /\ pc = "call"
    /\ data \in datasets
    /\ today \in days
    /\ loadOutcome = "ok"
    /\ sinkOutcome = "ok"
    /\ results = <<>>
    /\ critical_found = FALSE
    /\ evaluated = <<>>
    /\ ret = NoValue
    /\ tax = NoValue
    /\ outl = NoValue
    /\ lat = NoValue
    /\ loads = 0
    /\ written = <<>>
    /\ exitCode = NoExit

Return(value) ==
    /\ ret' = Returned(value)
    /\ pc' = "done"
    /\ UNCHANGED <<data, today, loadOutcome, sinkOutcome, results, critical_found,
                   evaluated, tax, outl, lat, loads, written, exitCode>>

MaxTaxRecords == 2
MaxTaxRepeat == 5

TaxValues == {Null, Blank, Unknown, Google, IntV(0)}

TaxRecords == UNION {[cols -> TaxValues] : cols \in SUBSET {"source", "medium"}}

TaxData ==
    SeqsUpTo(TaxRecords, MaxTaxRecords) \cup
    {[i \in 1..n |-> r] : r \in TaxRecords, n \in 1..MaxTaxRepeat}

CallTaxonomy == pc = "call" /\ Return(taxonomy_validation(data))

SpecTaxonomy == InitCall(TaxData, {Date(2024, 3, 3)}) /\ [][CallTaxonomy]_vars

MaxLatRecords == 2

LatValues ==
    {Absent, Null, IntV(0), Date_Feb29, Date_Mar01_Slash, Date_Mar01_US,
     Date_Mar01_Time, Date_Mar02_Iso, Date_Mar04_Short, Date_Feb30, Date_Padded,
     Date_Junk, Date_Empty}

\* record i carries its position as id
LatData ==
    {[i \in DOMAIN vs |-> Record([id |-> IntV(i), date |-> vs[i]])] :
        vs \in SeqsUpTo(LatValues, MaxLatRecords)}

LatToday == {Date(2024, 3, 3), Date(2024, 3, 4), Date(2024, 3, 5)}

CallLatency == pc = "call" /\ Return(latency_validation(data, today))

SpecLatency == InitCall(LatData, LatToday) /\ [][CallLatency]_vars

MaxOutRecords == 11
MaxJunk == 2
MaxMetric == 9
MaxSmallRecords == 3

JunkValues == <<Null, StrV(<<"x">>), Absent>>

\* j records without a coercible spend, then n records with spend 0 but for
\* the last one, whose spend is b, written as text when b is odd
OneOffData ==
    {[i \in 1..(j + n) |->
        Record([id |-> IntV(i),
                spend |-> IF i <= j THEN JunkValues[i]
                          ELSE IF i < j + n THEN IntV(0)
                          ELSE IF b % 2 = 1 THEN StrV(<<" ">> \o IntToChars(b))
                          ELSE IntV(b)])] :
        j \in 0..MaxJunk, n \in 2..MaxOutRecords, b \in 0..MaxMetric}

\* MaxOutRecords records, constant in spend and clicks but for one record
\* each
TwoMetricData ==
    {[i \in 1..MaxOutRecords |->
        [id |-> IntV(i), spend |-> IntV(IF i = s THEN 50 ELSE 1),
         clicks |-> IntV(IF i = c THEN 0 - 40 ELSE 2), revenue |-> IntV(5)]] :
        s \in 1..3, c \in 1..3}

SmallOutData ==
    {[i \in DOMAIN vs |-> Record([id |-> IntV(i), spend |-> vs[i]])] :
        vs \in SeqsUpTo({Absent, Null, IntV(0), IntV(1), StrV(<<"1", " ">>)},
                        MaxSmallRecords)}

OutData == OneOffData \cup TwoMetricData \cup SmallOutData

CallOutlier == pc = "call" /\ Return(outlier_validation(data))

SpecOutlier == InitCall(OutData, {Date(2024, 3, 3)}) /\ [][CallOutlier]_vars

----------------------------------------------------------------------------
(* Properties of the orchestrator and the process boundary (Spec) *)

Rules == <<"missing_taxonomy", "zscore_outliers", "data_latency">>

\* what the evaluator of a rule returned to run_validations
RuleOutput(rule) ==
    IF rule = "missing_taxonomy" THEN tax
    ELSE IF rule = "zscore_outliers" THEN outl
    ELSE lat

RuleNames(res) == [i \in 1..Len(res) |-> res[i].rule]

Reported(rule) == RuleOutput(rule).count > 0

RulesDone == pc \in {"write", "returned", "raised", "exit"}

RunOver == pc \in {"returned", "raised", "exit"}

HasCritical(res) == \E i \in 1..Len(res) : res[i].severity = "critical"

\* C1: after a successful load the rules of the findings are exactly the
\* rules whose evaluator returned count > 0, in the order missing_taxonomy,
\* zscore_outliers, data_latency, each once, and each finding carries the
\* count its evaluator returned.
C1_FindingsFollowRules ==
    (loadOutcome = "ok" /\ RulesDone) =>
        /\ RuleNames(results) = SelectSeq(Rules, Reported)
        /\ \A i \in 1..Len(results) :
              results[i].count = RuleOutput(results[i].rule).count

\* a run whose first rule is silent and whose other two rules report
C1_Witness ==
    /\ loadOutcome = "ok" /\ pc = "exit"
    /\ RuleNames(results) = <<"zscore_outliers", "data_latency">>
    /\ tax.count = 0

\* C2 as stated: a failed load gives exactly one finding, critical with
\* count 1, no rule is evaluated, the findings go to the sink once, the load
\* is not retried, and run_validations returns true.
C2_LoadFailureReturnsTrue ==
    (loadOutcome # "ok" /\ RunOver) =>
        /\ Len(results) = 1
        /\ results[1].severity = "critical" /\ results[1].count = 1
        /\ evaluated = <<>>
        /\ written = <<results>>
        /\ loads = 1
        /\ ret = Returned(TRUE)

\* C2 (amended): as above, but run_validations returns true provided the
\* sink write does not raise; when it raises, run_validations returns nothing.
C2_LoadFailure ==
    (loadOutcome # "ok" /\ RunOver) =>
        /\ Len(results) = 1
        /\ results[1].severity = "critical" /\ results[1].count = 1
        /\ evaluated = <<>>
        /\ written = <<results>>
        /\ loads = 1
        /\ ret = IF sinkOutcome = "ok" THEN Returned(TRUE) ELSE NoValue

C2_Witness ==
    /\ loadOutcome = "operational" /\ pc = "returned"
    /\ RuleNames(results) = <<"fact_campaigns_table_access">>
    /\ ret = Returned(TRUE)

\* C3: whenever run_validations returns, the returned flag is true exactly
\* when some finding handed to the sink is critical.
C3_FlagIffCritical ==
    (pc \in {"returned", "exit"} /\ ret # NoValue) =>
        /\ Len(written) = 1
        /\ ret.value = HasCritical(written[1])

\* a run whose only finding is the zscore_outliers warning returns false
C3_Witness ==
    /\ pc = "returned"
    /\ RuleNames(written[1]) = <<"zscore_outliers">>
    /\ ret = Returned(FALSE)

\* C4: the exit status is non-zero exactly when a critical finding was
\* produced or an error left run_validations, and zero otherwise.
C4_ExitStatus ==
    pc = "exit" =>
        /\ exitCode \in {0, 1}
        /\ exitCode # 0 <=> (HasCritical(results) \/ ret = NoValue)

\* findings exist, all of them warnings, and the process exits with 0
C4_Witness ==
    /\ pc = "exit" /\ exitCode = 0
    /\ results # <<>> /\ ~HasCritical(results)

----------------------------------------------------------------------------
(* Properties of the taxonomy rule (SpecTaxonomy) *)

Called == pc = "done"

RECURSIVE RecordsAt(_, _)
\* the records of d at the indices of the ascending sequence order
RecordsAt(d, order) ==
    IF order = <<>> THEN <<>> ELSE <<d[Head(order)]>> \o RecordsAt(d, Tail(order))

\* the positions of the records whose source or medium is missing
MissingTaxonomyAt(d) ==
    {i \in 1..Len(d) :
        \/ "source" \notin DOMAIN d[i] \/ is_missing_value(Get(d[i], "source"))
        \/ "medium" \notin DOMAIN d[i] \/ is_missing_value(Get(d[i], "medium"))}

\* C5: taxonomy_validation returns as count the number of records whose
\* source or medium is missing and as records exactly those records, in
\* dataset order, for every dataset, whatever the column sets of its records.
C5_TaxonomyCountsMissing ==
    Called =>
        /\ ret.value.count = Cardinality(MissingTaxonomyAt(data))
        /\ ret.value.records = RecordsAt(data, SortedSeq(MissingTaxonomyAt(data)))

----------------------------------------------------------------------------
(* Properties of the latency rule (SpecLatency) *)

HasDateColumn(d) == d # <<>> /\ "date" \in DOMAIN d[1]

\* the positions of the records whose date parses
ParsedAt(d) == {i \in 1..Len(d) : parse_date(Get(d[i], "date")).ok}

OrdinalAt(d, i) == ToOrdinal(parse_date(Get(d[i], "date")))

\* the first position whose parsed date is the maximum parsed date
FirstLatestAt(d) ==
    CHOOSE i \in ParsedAt(d) :
        /\ \A j \in ParsedAt(d) : OrdinalAt(d, j) <= OrdinalAt(d, i)
        /\ \A j \in ParsedAt(d) : OrdinalAt(d, j) = OrdinalAt(d, i) => i <= j

C7_NoValidDate ==
    (Called /\ ParsedAt(data) = {}) =>
        /\ ret.value.count = 1
        /\ (data = <<>> \/ HasDateColumn(data)) => ret.value.records = <<>>
        /\ (data # <<>> /\ ~HasDateColumn(data)) => ret.value.records = <<data[1]>>

----------------------------------------------------------------------------
(* Properties of the outlier rule (SpecOutlier) *)

\* the positions of the records whose value of the metric coerces
CoercibleAt(d, metric) == {i \in 1..Len(d) : coerce_float(Get(d[i], metric)).ok}

ValueAt(d, metric, i) == coerce_float(Get(d[i], metric)).v

RECURSIVE SumOver(_, _, _, _)
\* the sum of Term(value) over the positions of S
SumOver(d, metric, S, square) ==
    IF S = {} THEN 0
    ELSE LET i == CHOOSE j \in S : TRUE
             v == ValueAt(d, metric, i)
         IN  (IF square THEN v * v ELSE v) + SumOver(d, metric, S \ {i}, square)

\* |z| >= 3 in exact arithmetic, for the value at position i against the
\* population mean and standard deviation of the metric's coercible values:
\* (n*v - sum)^2 >= 9 * (n*sumsq - sum^2), with a positive variance
ExactOutlier(d, metric, i) ==
    LET S == CoercibleAt(d, metric)
        n == Cardinality(S)
        sum == SumOver(d, metric, S, FALSE)
        sumsq == SumOver(d, metric, S, TRUE)
        var == n * sumsq - sum * sum
        dev == n * ValueAt(d, metric, i) - sum
    IN  i \in S /\ n >= 2 /\ var > 0 /\ dev * dev >= 9 * var

ExactOutliersAt(d) ==
    {i \in 1..Len(d) : \E k \in 1..Len(metrics) : ExactOutlier(d, metrics[k], i)}

\* C8: outlier_validation returns exactly the records with an absolute
\* z-score of at least 3 in some metric, each once, in ascending index order,
\* and their number as count.
C8_OutliersAreZScores ==
    Called =>
        /\ ret.value.records = RecordsAt(data, SortedSeq(ExactOutliersAt(data)))
        /\ ret.value.count = Cardinality(ExactOutliersAt(data))

\* the coercible values of the metric are 10 values, 9 of them identical
NineAndOne(d, metric) ==
    LET S == CoercibleAt(d, metric)
    IN  /\ Cardinality(S) = 10
        /\ \E i \in S :
              /\ \A j \in S \ {i}, k \in S \ {i} :
                    ValueAt(d, metric, j) = ValueAt(d, metric, k)
              /\ \E j \in S : ValueAt(d, metric, j) # ValueAt(d, metric, i)

\* the position of the value that differs from the other 9
OddOneAt(d, metric) ==
    CHOOSE i \in CoercibleAt(d, metric) :
        \A j \in CoercibleAt(d, metric) \ {i} :
            ValueAt(d, metric, j) # ValueAt(d, metric, i)

\* C9: when spend has exactly 10 coercible values, 9 identical and 1
\* different, and no other metric has a value, outlier_validation flags the
\* record of the different value and no other.
C9_NineAndOneFlagsTheOne ==
    (/\ Called
     /\ NineAndOne(data, "spend")
     /\ \A k \in 2..Len(metrics) : CoercibleAt(data, metrics[k]) = {}) =>
        ret.value = [count |-> 1, records |-> <<data[OddOneAt(data, "spend")]>>]

====
